---- MODULE Spec2Model ----
(***************************************************************************)
(* The cooperative task executor of ockam_executor (executor.rs): the      *)
(* driver loop block_on, poll_task, spawn / spawn_with_name, the TaskId    *)
(* counter NEXT_ID, the ready queue task_queue and the wakers.             *)
(*                                                                         *)
(* A poll of a computation (the root future or a task) is a call-out: the  *)
(* computation may call spawn and invoke wakers before it returns Ready or *)
(* Pending.  The driver is therefore cut at the polls: pc = "node_poll"    *)
(* while node.poll runs, pc = "task_poll" while task.poll runs inside      *)
(* poll_task, and pc = "task_loop" at the head of the while-let loop.      *)
(*                                                                         *)
(* Init is the executor as current() hands it out for the first time.      *)
(* CurSpec starts earlier, with the static of current() not yet written.   *)
(* The variable mode selects what the history variables record: the pushes *)
(* since the latest pop (PushSpec), the polls of each pass of the task     *)
(* loop (PassSpec) or the sequence of polled ids of a scripted run         *)
(* (ScriptSpec) or the invocations, pops and polls per task id             *)
(* (CountSpec); with mode = "plain" they stay as Fresh leaves them.        *)
(***************************************************************************)
EXTENDS Integers, Sequences, FiniteSets, TLC

\* ---- bounds of the model -------------------------------------------------
MaxId == 3         \* NEXT_ID stops at MaxId: TaskIds are 0 .. MaxId-1
MaxQueue == 3      \* pushes are held back while task_queue has MaxQueue entries
NumExt == 1        \* contexts other than the driver that call spawn (SpecConc)
MaxWakes == 2      \* handle invocations that are counted (CountSpec)

TaskIds == 0 .. (MaxId - 1)
NoId == 0 - 1
Values == {"a", "b"}          \* what the root future may complete with
NameArgs == {"worker"}        \* the names given to spawn_with_name
Ext == 1 .. NumExt
Callers == 0 .. NumExt        \* the contexts that call current(); 0 is the driver
NoMono == << >>

VARIABLES
    next_id,       \* static NEXT_ID: AtomicUsize
    tasks,         \* Executor.tasks: TaskId -> name of the task
    waker_cache,   \* Executor.waker_cache: TaskId -> TaskId its TaskWaker is bound to
    task_queue,    \* Executor.task_queue: SegQueue<TaskId>
    handles,       \* task ids some TaskWaker has been created for (clones may live on)
    pc,            \* position of the driver context
    node_id,       \* block_on: node.id
    last_task,     \* block_on: last_task
    task_budget,   \* block_on: task_budget
    task_id,       \* poll_task: task_id of the task being polled
    result,        \* block_on: result returned
    panicked,      \* the panic of spawn / spawn_with_name was reached
    ext_pc,        \* position of each other context inside spawn
    ext_id,        \* the task id that context allocated
    ext_raced,     \* contexts whose tasks.insert overlapped another access to tasks
    root_signal,   \* history: what the latest node.poll of this block_on returned
    root_polls,    \* history: node.poll calls of this block_on (saturating)
    pass_end,      \* history: how the pass of the task loop before this node.poll ended
    last_pop,      \* history: what the latest pop of this pass found
    task_polls,    \* history: 1 once task.poll was called in this block_on, else 0
    ever_polled,   \* history: task ids whose task.poll was ever called
    completed,     \* history: task ids whose task.poll returned Ready
    issued,        \* history: ids given to spawned tasks, in call order
    mode,          \* what is recorded: "plain", "pushes", "passes", "scripted", "counts"
    run_base,      \* pushes: length of task_queue right after the latest pop
    run_pushed,    \* pushes: the pushes since the latest pop, in call order
    pass_polls,    \* passes: task.poll calls of this pass of the task loop
    pass_budget,   \* passes: what task_queue.len() returned for this pass
    pass_mono,     \* passes: the one id task_queue held at node.poll's return
    poll_trace,    \* scripted: the ids task.poll was called for, in call order
    INIT,          \* static INIT: AtomicBool of current()
    init_writes,   \* history: executorp.write calls of current() (saturating)
    cur_pc,        \* position of each context inside current()
    invoked,       \* counts: per task id, the invocations of its handle
    popped,        \* counts: per task id, the pops that went on to poll_task
    polled,        \* counts: per task id, the task.poll calls
    fired,         \* counts: ids whose handle was invoked since task.poll began
    node_wakes     \* counts: 1 once the NodeWaker of this block_on was invoked

vars == <<next_id, tasks, waker_cache, task_queue, handles, pc, node_id,
          last_task, task_budget, task_id, result, panicked, ext_pc, ext_id, ext_raced,
          root_signal, root_polls, task_polls, pass_end, last_pop,
          ever_polled, completed, issued, mode, run_base, run_pushed,
          pass_polls, pass_budget, pass_mono, poll_trace, INIT, init_writes,
          cur_pc, invoked, popped, polled, fired, node_wakes>>

driver_locals == <<node_id, last_task, task_budget, task_id, result>>
ext_vars == <<ext_pc, ext_id, ext_raced>>
history == <<root_signal, root_polls, task_polls, pass_end, last_pop,
             ever_polled, completed, issued>>
run_vars == <<run_base, run_pushed>>
pass_vars == <<pass_polls, pass_budget, pass_mono>>
obs == <<mode, run_vars, pass_vars, poll_trace>>
cur_vars == <<INIT, init_writes, cur_pc>>
count_vars == <<invoked, popped, polled, fired, node_wakes>>

\* ---- helpers --------------------------------------------------------------
\* the history counters tell none, one and more than one apart
Sat(n) == IF n < 2 THEN n + 1 ELSE n

Remove(f, k) == [i \in DOMAIN f \ {k} |-> f[i]]

\* variant of FetchAdd: the counter is not advanced
FetchAddStuck(n) == n

\* TaskId::new: NEXT_ID.fetch_add(1, Relaxed) hands out the old value n and
\* stores FetchAdd(n).  usize wrap-around lies beyond MaxId and is not modelled.
FetchAdd(n) == n + 1

\* variant of Push: the entry goes to the head
PushLifo(q, t) == <<t>> \o q

\* task_queue.push(id): SegQueue is a FIFO, the entry goes to the tail
Push(q, t) == Append(q, t)

\* TaskWaker::new(task_id, task_queue): the handle is bound to task_id
TaskWakerNew(t) == t

\* The executor as Executor::new leaves it.  m says what the history
\* variables record; up says whether current() has set the executor up.
Fresh(m, up) ==
    /\ next_id = 0
    /\ tasks = << >>
    /\ waker_cache = << >>
    /\ task_queue = << >>
    /\ handles = {}
    /\ pc = "init"
    /\ node_id = NoId
    /\ last_task = NoId
    /\ task_budget = 0
    /\ task_id = NoId
    /\ result = "none"
    /\ panicked = FALSE
    /\ ext_pc = [c \in Ext |-> "idle"]
    /\ ext_id = [c \in Ext |-> NoId]
    /\ ext_raced = {}
    /\ root_signal = "none"
    /\ root_polls = 0
    /\ task_polls = 0
    /\ pass_end = "none"
    /\ last_pop = "none"
    /\ ever_polled = {}
    /\ completed = {}
    /\ issued = << >>
    /\ mode = m
    /\ run_base = 0
    /\ run_pushed = << >>
    /\ pass_polls = 0
    /\ pass_budget = 0
    /\ pass_mono = NoMono
    /\ poll_trace = << >>
    /\ INIT = up
    /\ init_writes = IF up THEN 1 ELSE 0
    /\ cur_pc = [c \in Callers |-> "idle"]
    /\ invoked = IF m = "counts" THEN [t \in TaskIds |-> 0] ELSE << >>
    /\ popped = IF m = "counts" THEN [t \in TaskIds |-> 0] ELSE << >>
    /\ polled = IF m = "counts" THEN [t \in TaskIds |-> 0] ELSE << >>
    /\ fired = {}
    /\ node_wakes = 0

Init == Fresh("plain", TRUE)

\* ---- what the history variables record -----------------------------------
\* a push of id t by spawn, wake or wake_by_ref
RunPush(t) ==
    /\ run_base' = run_base
    /\ run_pushed' = IF mode = "pushes" THEN Append(run_pushed, t)
                     ELSE run_pushed

\* a pop by the driver that leaves q as the queue
RunPop(q) ==
    /\ run_base' = IF mode = "pushes" THEN Len(q) ELSE 0
    /\ run_pushed' = << >>

\* block_on is entered: no pass of the task loop has begun
PassReset ==
    /\ pass_polls' = 0
    /\ pass_budget' = 0
    /\ pass_mono' = NoMono

\* a pass of the task loop begins: task_budget = task_queue.len()
PassBegin ==
    /\ pass_polls' = 0
    /\ pass_budget' = IF mode = "passes" THEN Len(task_queue) ELSE 0
    /\ pass_mono' = IF /\ mode = "passes"
                       /\ Len(task_queue) >= 2
                       /\ \A i \in 1 .. Len(task_queue) :
                            task_queue[i] = task_queue[1]
                       /\ task_queue[1] \in DOMAIN tasks
                    THEN <<task_queue[1], Len(task_queue)>>
                    ELSE NoMono

\* task.poll is called for t
PassPoll(t) ==
    /\ pass_polls' = IF mode = "passes" THEN pass_polls + 1 ELSE 0
    /\ poll_trace' = IF mode = "scripted" THEN Append(poll_trace, t)
                     ELSE poll_trace
    /\ UNCHANGED <<pass_budget, pass_mono>>

\* the sum of a counter over the task ids
Total(f) ==
    LET S[i \in 0 .. MaxId] == IF i = 0 THEN 0 ELSE f[i - 1] + S[i - 1]
    IN S[MaxId]

\* the handle bound to t is invoked
CountInvoke(t) ==
    /\ invoked' = IF mode = "counts" THEN [invoked EXCEPT ![t] = @ + 1]
                  ELSE invoked
    /\ fired' = IF mode = "counts" THEN fired \cup {t} ELSE fired
    /\ UNCHANGED <<popped, polled, node_wakes>>

\* poll_task is called for t and finds no task
CountStale(t) ==
    /\ popped' = IF mode = "counts" THEN [popped EXCEPT ![t] = @ + 1]
                 ELSE popped
    /\ UNCHANGED <<invoked, polled, fired, node_wakes>>

\* poll_task is called for t and calls task.poll
CountPoll(t) ==
    /\ popped' = IF mode = "counts" THEN [popped EXCEPT ![t] = @ + 1]
                 ELSE popped
    /\ polled' = IF mode = "counts" THEN [polled EXCEPT ![t] = @ + 1]
                 ELSE polled
    /\ fired' = fired \ {t}
    /\ UNCHANGED <<invoked, node_wakes>>

\* block_on makes a new NodeWaker
CountBlockOn ==
    /\ node_wakes' = 0
    /\ UNCHANGED <<invoked, popped, polled, fired>>

\* The driver context is running user code that may call spawn: before or
\* after block_on, or inside a poll of the root or of a task.
UserCode == ~panicked /\ pc \in {"init", "done", "node_poll", "task_poll"}

\* tasks is reached through a raw pointer: an access by the driver context
\* while another context is inside tasks.insert is a data race on the map
Inserting == {c \in Ext : ext_pc[c] = "inserting"}
TouchTasks == ext_raced' = ext_raced \cup Inserting

\* ---- spawn ----------------------------------------------------------------
\* variant of SpawnPost: the id is put at the head of the queue
SpawnPushFront ==
    [next_id |-> FetchAdd(next_id),
     task_queue |-> <<next_id>> \o task_queue,
     panicked |-> next_id \in DOMAIN tasks,
     tasks |-> IF next_id \in DOMAIN tasks THEN tasks
               ELSE tasks @@ (next_id :> "Task")]

\* variant of SpawnPost: the id is not pushed
SpawnNoPush ==
    [next_id |-> FetchAdd(next_id),
     task_queue |-> task_queue,
     panicked |-> next_id \in DOMAIN tasks,
     tasks |-> IF next_id \in DOMAIN tasks THEN tasks
               ELSE tasks @@ (next_id :> "Task")]

\* What spawn leaves behind: task = Task::allocate(future) with id =
\* TaskId::new() and name "Task"; task_queue.push(task.id); tasks.insert,
\* and the panic if the id was there.
SpawnPost ==
    [next_id |-> FetchAdd(next_id),
     task_queue |-> Push(task_queue, next_id),
     panicked |-> next_id \in DOMAIN tasks,
     tasks |-> IF next_id \in DOMAIN tasks THEN tasks
               ELSE tasks @@ (next_id :> "Task")]

\* variant of SpawnWithNamePost: the id is not pushed
SpawnWithNameNoPush(name) ==
    [next_id |-> FetchAdd(next_id),
     task_queue |-> task_queue,
     panicked |-> next_id \in DOMAIN tasks,
     tasks |-> IF next_id \in DOMAIN tasks THEN tasks
               ELSE tasks @@ (next_id :> name)]

\* What spawn_with_name leaves behind: Task::allocate_with_name(name, future)
\* with id = TaskId::new(); task_queue.push(task.id); tasks.insert, and the
\* panic if the id was there.
SpawnWithNamePost(name) ==
    [next_id |-> FetchAdd(next_id),
     task_queue |-> Push(task_queue, next_id),
     panicked |-> next_id \in DOMAIN tasks,
     tasks |-> IF next_id \in DOMAIN tasks THEN tasks
               ELSE tasks @@ (next_id :> name)]

\* spawn, called by user code of the driver context
Spawn ==
    /\ UserCode
    /\ next_id < MaxId
    /\ Len(task_queue) < MaxQueue
    /\ next_id' = SpawnPost.next_id
    /\ task_queue' = SpawnPost.task_queue
    /\ tasks' = SpawnPost.tasks
    /\ panicked' = SpawnPost.panicked
    /\ issued' = Append(issued, next_id)
    /\ TouchTasks
    /\ RunPush(next_id)
    /\ UNCHANGED count_vars
    /\ UNCHANGED <<mode, pass_vars, poll_trace, cur_vars>>
    /\ UNCHANGED <<waker_cache, handles, pc, driver_locals, ext_pc, ext_id,
                   root_signal, root_polls, task_polls, pass_end, last_pop,
                   ever_polled, completed>>

\* spawn_with_name, called by user code of the driver context
SpawnWithName ==
    \E name \in NameArgs :
        /\ UserCode
        /\ next_id < MaxId
        /\ Len(task_queue) < MaxQueue
        /\ next_id' = SpawnWithNamePost(name).next_id
        /\ task_queue' = SpawnWithNamePost(name).task_queue
        /\ tasks' = SpawnWithNamePost(name).tasks
        /\ panicked' = SpawnWithNamePost(name).panicked
        /\ issued' = Append(issued, next_id)
        /\ TouchTasks
        /\ RunPush(next_id)
        /\ UNCHANGED count_vars
        /\ UNCHANGED <<mode, pass_vars, poll_trace, cur_vars>>
        /\ UNCHANGED <<waker_cache, handles, pc, driver_locals, ext_pc, ext_id,
                       root_signal, root_polls, task_polls, pass_end,
                       last_pop, ever_polled, completed>>

\* ---- wakers ---------------------------------------------------------------
\* the fields of the Executor struct
Executor ==
    [tasks |-> tasks, waker_cache |-> waker_cache, task_queue |-> task_queue]

\* variant of RescheduleTask: an id that is queued already is not pushed
RescheduleTaskOnce(e, t) ==
    IF \E i \in 1 .. Len(e.task_queue) : e.task_queue[i] = t
    THEN e
    ELSE [e EXCEPT !.task_queue = Append(@, t)]

\* TaskWaker::reschedule_task of the handle bound to t, on the executor e:
\* self.task_queue.push(self.task_id)
RescheduleTask(e, t) == [e EXCEPT !.task_queue = Push(@, t)]

\* variant of WakePost: the id is not pushed
WakeLost(e, t) == e

\* Wake::wake(self: Arc<Self>): self.reschedule_task()
WakePost(e, t) == RescheduleTask(e, t)

\* variant of WakeByRefPost: the id is put at the head of the queue
WakeByRefFront(e, t) == [e EXCEPT !.task_queue = <<t>> \o @]

\* Wake::wake_by_ref(self: &Arc<Self>): self.reschedule_task()
WakeByRefPost(e, t) == RescheduleTask(e, t)

\* a handle bound to t is invoked, from any context holding a clone of it,
\* and leaves the executor as post
Invoke(t, post) ==
    /\ ~panicked
    /\ Len(task_queue) < MaxQueue
    /\ task_queue' = post.task_queue
    /\ tasks' = post.tasks
    /\ waker_cache' = post.waker_cache
    /\ RunPush(t)
    /\ mode = "counts" => Total(invoked) < MaxWakes
    /\ CountInvoke(t)
    /\ UNCHANGED <<next_id, handles, pc, driver_locals, panicked, ext_vars,
                   history, mode, pass_vars, poll_trace, cur_vars>>

WakeOf(t) == Invoke(t, WakePost(Executor, t))

WakeByRefOf(t) == Invoke(t, WakeByRefPost(Executor, t))

Wake == \E t \in handles : WakeOf(t)

WakeByRef == \E t \in handles : WakeByRefOf(t)

\* variant of NodeWakePost: the id of the root is pushed
NodeWakePushes(e) == RescheduleTask(e, node_id)

\* Wake for NodeWaker: wake and wake_by_ref have empty bodies
NodeWakePost(e) == e

\* the NodeWaker that block_on made is invoked, from any context holding a
\* clone of it
NodeWake ==
    /\ ~panicked
    /\ node_id # NoId
    /\ task_queue' = NodeWakePost(Executor).task_queue
    /\ tasks' = NodeWakePost(Executor).tasks
    /\ waker_cache' = NodeWakePost(Executor).waker_cache
    /\ node_wakes' = IF mode = "counts" THEN 1 ELSE node_wakes
    /\ UNCHANGED <<next_id, handles, pc, driver_locals, panicked, ext_vars,
                   history, obs, cur_vars, invoked, popped, polled, fired>>

\* ---- block_on -------------------------------------------------------------
\* the inner loop is left: sleep_if_idle, then the top of the outer loop,
\* where node.poll is called; last_task and task_budget go out of scope
NextIteration(how) ==
    /\ pc' = "node_poll"
    /\ last_task' = NoId
    /\ task_budget' = 0
    /\ root_polls' = Sat(root_polls)
    /\ root_signal' = "none"
    /\ pass_end' = how
    /\ last_pop' = "none"

\* variant of BlockOn: the loop body drains the queue before the first node.poll
BlockOnTasksFirst ==
    /\ ~panicked
    /\ pc \in {"init", "done"}
    /\ next_id < MaxId
    /\ node_id' = next_id
    /\ next_id' = FetchAdd(next_id)
    /\ pc' = "task_loop"
    /\ last_task' = next_id
    /\ task_budget' = Len(task_queue)
    /\ task_id' = NoId
    /\ result' = "none"
    /\ root_polls' = 0
    /\ root_signal' = "none"
    /\ task_polls' = 0
    /\ pass_end' = "none"
    /\ last_pop' = "none"
    /\ PassReset
    /\ CountBlockOn
    /\ UNCHANGED <<mode, run_vars, poll_trace, cur_vars>>
    /\ UNCHANGED <<tasks, waker_cache, task_queue, handles, panicked, ext_vars,
                   ever_polled, completed, issued>>

\* variant of BlockOn: node.id is read from the counter without advancing it
BlockOnReusesId ==
    /\ ~panicked
    /\ pc \in {"init", "done"}
    /\ next_id < MaxId
    /\ node_id' = next_id
    /\ next_id' = next_id
    /\ pc' = "node_poll"
    /\ last_task' = NoId
    /\ task_budget' = 0
    /\ task_id' = NoId
    /\ result' = "none"
    /\ root_polls' = 1
    /\ root_signal' = "none"
    /\ task_polls' = 0
    /\ pass_end' = "none"
    /\ last_pop' = "none"
    /\ PassReset
    /\ CountBlockOn
    /\ UNCHANGED <<mode, run_vars, poll_trace, cur_vars>>
    /\ UNCHANGED <<tasks, waker_cache, task_queue, handles, panicked, ext_vars,
                   ever_polled, completed, issued>>

\* block_on is called: node.id = TaskId::new(), then the loop is entered and
\* node.poll is called
BlockOn ==
    /\ ~panicked
    /\ pc \in {"init", "done"}
    /\ next_id < MaxId
    /\ node_id' = next_id
    /\ next_id' = FetchAdd(next_id)
    /\ pc' = "node_poll"
    /\ last_task' = NoId
    /\ task_budget' = 0
    /\ task_id' = NoId
    /\ result' = "none"
    /\ root_polls' = 1
    /\ root_signal' = "none"
    /\ task_polls' = 0
    /\ pass_end' = "none"
    /\ last_pop' = "none"
    /\ PassReset
    /\ CountBlockOn
    /\ UNCHANGED <<mode, run_vars, poll_trace, cur_vars>>
    /\ UNCHANGED <<tasks, waker_cache, task_queue, handles, panicked, ext_vars,
                   ever_polled, completed, issued>>

\* variant of NodePollReady: the tasks left are dropped when block_on returns
NodePollReadyDropsTasks ==
    /\ pc = "node_poll"
    /\ \E v \in Values :
         /\ result' = v
         /\ root_signal' = v
    /\ pc' = "done"
    /\ pass_end' = "none"
    /\ tasks' = << >>
    /\ waker_cache' = << >>
    /\ UNCHANGED count_vars
    /\ UNCHANGED <<obs, cur_vars>>
    /\ UNCHANGED <<next_id, task_queue, handles, node_id, last_task,
                   task_budget, task_id, panicked, ext_vars, root_polls,
                   task_polls, last_pop, ever_polled, completed, issued>>

\* node.poll returned Poll::Ready(result): break result, and block_on returns it
NodePollReady ==
    /\ pc = "node_poll"
    /\ \E v \in Values :
         /\ result' = v
         /\ root_signal' = v
    /\ pc' = "done"
    /\ pass_end' = "none"
    /\ UNCHANGED count_vars
    /\ UNCHANGED <<obs, cur_vars>>
    /\ UNCHANGED <<next_id, tasks, waker_cache, task_queue, handles, node_id,
                   last_task, task_budget, task_id, panicked, ext_vars,
                   root_polls, task_polls, last_pop, ever_polled, completed,
                   issued>>

\* node.poll returned Poll::Pending: last_task = node.id.0 and
\* task_budget = task_queue.len()
NodePollPending ==
    /\ pc = "node_poll"
    /\ root_signal' = "pending"
    /\ last_task' = node_id
    /\ task_budget' = Len(task_queue)
    /\ pc' = "task_loop"
    /\ pass_end' = "none"
    /\ PassBegin
    /\ UNCHANGED count_vars
    /\ UNCHANGED <<mode, run_vars, poll_trace, cur_vars>>
    /\ UNCHANGED <<next_id, tasks, waker_cache, task_queue, handles, node_id,
                   task_id, result, panicked, ext_vars, root_polls, task_polls,
                   last_pop, ever_polled, completed, issued>>

\* variant of AfterPoll: the budget never ends the inner loop
AfterPollNoBudget(t, how) ==
    /\ task_budget' = IF task_budget = 0 THEN 0 ELSE task_budget - 1
    /\ last_task' = t
    /\ pc' = "task_loop"
    /\ last_pop' = how
    /\ UNCHANGED <<root_polls, root_signal, pass_end>>

\* after poll_task(t): if task_budget == 0 { break } task_budget -= 1
AfterPoll(t, how) ==
    IF task_budget = 0
    THEN NextIteration("budget")
    ELSE /\ task_budget' = task_budget - 1
         /\ last_task' = t
         /\ pc' = "task_loop"
         /\ last_pop' = how
         /\ UNCHANGED <<root_polls, root_signal, pass_end>>

\* variant of LoopEmpty: block_on returns when no task is ready
LoopEmptyReturns ==
    /\ pc = "task_loop"
    /\ task_queue = << >>
    /\ pc' = "done"
    /\ UNCHANGED count_vars
    /\ UNCHANGED <<obs, cur_vars>>
    /\ UNCHANGED <<next_id, tasks, waker_cache, task_queue, handles,
                   driver_locals, panicked, ext_vars, history>>

\* while let Some(task_id) = task_queue.pop(): the queue is empty
LoopEmpty ==
    /\ pc = "task_loop"
    /\ task_queue = << >>
    /\ NextIteration("empty")
    /\ UNCHANGED count_vars
    /\ UNCHANGED <<obs, cur_vars>>
    /\ UNCHANGED <<next_id, tasks, waker_cache, task_queue, handles, node_id,
                   task_id, result, panicked, ext_vars, task_polls,
                   ever_polled, completed, issued>>

\* variant of LoopYield: the popped id is not pushed back
LoopYieldDrops ==
    /\ pc = "task_loop"
    /\ task_queue # << >>
    /\ Head(task_queue) = last_task
    /\ task_queue' = Tail(task_queue)
    /\ NextIteration("yield")
    /\ RunPop(Tail(task_queue))
    /\ UNCHANGED count_vars
    /\ UNCHANGED <<mode, pass_vars, poll_trace, cur_vars>>
    /\ UNCHANGED <<next_id, tasks, waker_cache, handles, node_id, task_id,
                   result, panicked, ext_vars, task_polls, ever_polled,
                   completed, issued>>

\* variant of LoopYield: the popped id is pushed back and the loop goes on
LoopYieldContinues ==
    /\ pc = "task_loop"
    /\ task_queue # << >>
    /\ Head(task_queue) = last_task
    /\ task_queue' = Push(Tail(task_queue), Head(task_queue))
    /\ last_task' = NoId
    /\ RunPop(task_queue)
    /\ UNCHANGED count_vars
    /\ UNCHANGED <<mode, pass_vars, poll_trace, cur_vars>>
    /\ UNCHANGED <<next_id, tasks, waker_cache, handles, pc, node_id,
                   task_budget, task_id, result, panicked, ext_vars, history>>

\* variant of LoopYield: the popped id is pushed back twice
LoopYieldTwice ==
    /\ pc = "task_loop"
    /\ task_queue # << >>
    /\ Head(task_queue) = last_task
    /\ task_queue' = Push(Push(Tail(task_queue), Head(task_queue)),
                          Head(task_queue))
    /\ NextIteration("yield")
    /\ RunPop(task_queue)
    /\ UNCHANGED count_vars
    /\ UNCHANGED <<mode, pass_vars, poll_trace, cur_vars>>
    /\ UNCHANGED <<next_id, tasks, waker_cache, handles, node_id, task_id,
                   result, panicked, ext_vars, task_polls, ever_polled,
                   completed, issued>>

\* yield to looping tasks: the popped id is last_task, push it back and break
LoopYield ==
    /\ pc = "task_loop"
    /\ task_queue # << >>
    /\ Head(task_queue) = last_task
    /\ task_queue' = Push(Tail(task_queue), Head(task_queue))
    /\ NextIteration("yield")
    /\ RunPop(task_queue)
    /\ UNCHANGED count_vars
    /\ UNCHANGED <<mode, pass_vars, poll_trace, cur_vars>>
    /\ UNCHANGED <<next_id, tasks, waker_cache, handles, node_id, task_id,
                   result, panicked, ext_vars, task_polls, ever_polled,
                   completed, issued>>

\* variant of LoopPollStale: the waker is cached before the task is looked up
LoopPollStaleCaches ==
    /\ pc = "task_loop"
    /\ task_queue # << >>
    /\ Head(task_queue) # last_task
    /\ Head(task_queue) \notin DOMAIN tasks
    /\ task_queue' = Tail(task_queue)
    /\ waker_cache' = IF Head(task_queue) \in DOMAIN waker_cache
                      THEN waker_cache
                      ELSE waker_cache @@
                           (Head(task_queue) :> TaskWakerNew(Head(task_queue)))
    /\ AfterPoll(Head(task_queue), "stale")
    /\ TouchTasks
    /\ RunPop(Tail(task_queue))
    /\ CountStale(Head(task_queue))
    /\ UNCHANGED <<mode, pass_vars, poll_trace, cur_vars>>
    /\ UNCHANGED <<next_id, tasks, handles, node_id, task_id, result,
                   panicked, ext_pc, ext_id, task_polls, ever_polled,
                   completed, issued>>

\* variant of LoopPollStale: block_on gives up when no task is found
LoopPollStaleAborts ==
    /\ pc = "task_loop"
    /\ task_queue # << >>
    /\ Head(task_queue) # last_task
    /\ Head(task_queue) \notin DOMAIN tasks
    /\ task_queue' = Tail(task_queue)
    /\ pc' = "done"
    /\ last_pop' = "stale"
    /\ TouchTasks
    /\ RunPop(Tail(task_queue))
    /\ CountStale(Head(task_queue))
    /\ UNCHANGED <<mode, pass_vars, poll_trace, cur_vars>>
    /\ UNCHANGED <<next_id, tasks, waker_cache, handles, driver_locals,
                   panicked, ext_pc, ext_id, root_signal, root_polls,
                   task_polls, pass_end, ever_polled, completed, issued>>

\* the popped id is not last_task and poll_task finds no task for it: warn
\* and return
LoopPollStale ==
    /\ pc = "task_loop"
    /\ task_queue # << >>
    /\ Head(task_queue) # last_task
    /\ Head(task_queue) \notin DOMAIN tasks
    /\ task_queue' = Tail(task_queue)
    /\ AfterPoll(Head(task_queue), "stale")
    /\ TouchTasks
    /\ RunPop(Tail(task_queue))
    /\ CountStale(Head(task_queue))
    /\ UNCHANGED <<mode, pass_vars, poll_trace, cur_vars>>
    /\ UNCHANGED <<next_id, tasks, waker_cache, handles, node_id, task_id,
                   result, panicked, ext_pc, ext_id, task_polls, ever_polled,
                   completed, issued>>

\* variant of LoopPollTask: the newest entry of the queue is popped
LoopPollTaskLast ==
    /\ pc = "task_loop"
    /\ task_queue # << >>
    /\ task_queue[Len(task_queue)] # last_task
    /\ task_queue[Len(task_queue)] \in DOMAIN tasks
    /\ LET t == task_queue[Len(task_queue)]
           cache == IF t \in DOMAIN waker_cache
                    THEN waker_cache
                    ELSE waker_cache @@ (t :> TaskWakerNew(t))
       IN /\ task_queue' = SubSeq(task_queue, 1, Len(task_queue) - 1)
          /\ last_task' = t
          /\ task_id' = t
          /\ waker_cache' = cache
          /\ handles' = handles \cup {cache[t]}
          /\ ever_polled' = ever_polled \cup {t}
    /\ task_polls' = 1
    /\ last_pop' = "task"
    /\ pc' = "task_poll"
    /\ TouchTasks
    /\ RunPop(SubSeq(task_queue, 1, Len(task_queue) - 1))
    /\ PassPoll(task_queue[Len(task_queue)])
    /\ CountPoll(task_queue[Len(task_queue)])
    /\ UNCHANGED <<mode, cur_vars>>
    /\ UNCHANGED <<next_id, tasks, node_id, task_budget, result, panicked,
                   ext_pc, ext_id, root_signal, root_polls, pass_end,
                   completed, issued>>

\* the popped id is not last_task and poll_task finds the task, gets or
\* creates its waker and calls task.poll
LoopPollTask ==
    /\ pc = "task_loop"
    /\ task_queue # << >>
    /\ Head(task_queue) # last_task
    /\ Head(task_queue) \in DOMAIN tasks
    /\ LET t == Head(task_queue)
           cache == IF t \in DOMAIN waker_cache
                    THEN waker_cache
                    ELSE waker_cache @@ (t :> TaskWakerNew(t))
       IN /\ task_queue' = Tail(task_queue)
          /\ last_task' = t
          /\ task_id' = t
          /\ waker_cache' = cache
          /\ handles' = handles \cup {cache[t]}
          /\ ever_polled' = ever_polled \cup {t}
    /\ task_polls' = 1
    /\ last_pop' = "task"
    /\ pc' = "task_poll"
    /\ TouchTasks
    /\ RunPop(Tail(task_queue))
    /\ PassPoll(Head(task_queue))
    /\ CountPoll(Head(task_queue))
    /\ UNCHANGED <<mode, cur_vars>>
    /\ UNCHANGED <<next_id, tasks, node_id, task_budget, result, panicked,
                   ext_pc, ext_id, root_signal, root_polls, pass_end,
                   completed, issued>>

\* variant of TaskPollReady: the task stays in the table
TaskPollReadyKeepsTask ==
    /\ pc = "task_poll"
    /\ tasks' = tasks
    /\ waker_cache' = Remove(waker_cache, task_id)
    /\ completed' = completed \cup {task_id}
    /\ task_id' = NoId
    /\ AfterPoll(task_id, "task")
    /\ TouchTasks
    /\ UNCHANGED count_vars
    /\ UNCHANGED <<obs, cur_vars>>
    /\ UNCHANGED <<next_id, task_queue, handles, node_id, result, panicked,
                   ext_pc, ext_id, task_polls, ever_polled, issued>>

\* variant of TaskPollReady: the cached waker stays
TaskPollReadyKeepsWaker ==
    /\ pc = "task_poll"
    /\ tasks' = Remove(tasks, task_id)
    /\ waker_cache' = waker_cache
    /\ completed' = completed \cup {task_id}
    /\ task_id' = NoId
    /\ AfterPoll(task_id, "task")
    /\ TouchTasks
    /\ UNCHANGED count_vars
    /\ UNCHANGED <<obs, cur_vars>>
    /\ UNCHANGED <<next_id, task_queue, handles, node_id, result, panicked,
                   ext_pc, ext_id, task_polls, ever_polled, issued>>

\* task.poll returned Poll::Ready(()): remove the task and its cached waker
TaskPollReady ==
    /\ pc = "task_poll"
    /\ tasks' = Remove(tasks, task_id)
    /\ waker_cache' = Remove(waker_cache, task_id)
    /\ completed' = completed \cup {task_id}
    /\ task_id' = NoId
    /\ AfterPoll(task_id, "task")
    /\ TouchTasks
    /\ UNCHANGED count_vars
    /\ UNCHANGED <<obs, cur_vars>>
    /\ UNCHANGED <<next_id, task_queue, handles, node_id, result, panicked,
                   ext_pc, ext_id, task_polls, ever_polled, issued>>

\* variant of TaskPollPending: the cached waker is removed
TaskPollPendingDropsWaker ==
    /\ pc = "task_poll"
    /\ task_id' = NoId
    /\ waker_cache' = Remove(waker_cache, task_id)
    /\ AfterPoll(task_id, "task")
    /\ UNCHANGED count_vars
    /\ UNCHANGED <<obs, cur_vars>>
    /\ UNCHANGED <<next_id, tasks, task_queue, handles, node_id,
                   result, panicked, ext_vars, task_polls, ever_polled,
                   completed, issued>>

\* variant of TaskPollPending: the task is removed from the table
TaskPollPendingDrops ==
    /\ pc = "task_poll"
    /\ task_id' = NoId
    /\ tasks' = Remove(tasks, task_id)
    /\ AfterPoll(task_id, "task")
    /\ UNCHANGED count_vars
    /\ UNCHANGED <<obs, cur_vars>>
    /\ UNCHANGED <<next_id, waker_cache, task_queue, handles, node_id,
                   result, panicked, ext_vars, task_polls, ever_polled,
                   completed, issued>>

\* task.poll returned Poll::Pending
TaskPollPending ==
    /\ pc = "task_poll"
    /\ task_id' = NoId
    /\ AfterPoll(task_id, "task")
    /\ UNCHANGED count_vars
    /\ UNCHANGED <<obs, cur_vars>>
    /\ UNCHANGED <<next_id, tasks, waker_cache, task_queue, handles, node_id,
                   result, panicked, ext_vars, task_polls, ever_polled,
                   completed, issued>>

Driver ==
    \/ NodePollReady
    \/ NodePollPending
    \/ LoopEmpty
    \/ LoopYield
    \/ LoopPollStale
    \/ LoopPollTask
    \/ TaskPollReady
    \/ TaskPollPending

\* ---- spawn from a context other than the driver ---------------------------
\* current() hands the executor to any context, so spawn can run there while
\* the driver runs.  Its steps: Task::allocate (TaskId::new, an atomic
\* fetch_add), task_queue.push (SegQueue, atomic), tasks.insert (no lock).

\* variant of ExtAllocate: the counter is read and written back in two
\* steps, and the value read is the one another caller has already taken
ExtAllocateLostUpdate(c) ==
    /\ ~panicked
    /\ ext_pc[c] = "idle"
    /\ next_id < MaxId
    /\ ext_id' = [ext_id EXCEPT ![c] = IF next_id > 0 THEN next_id - 1 ELSE 0]
    /\ next_id' = FetchAdd(next_id)
    /\ issued' = Append(issued, IF next_id > 0 THEN next_id - 1 ELSE 0)
    /\ ext_pc' = [ext_pc EXCEPT ![c] = "allocated"]
    /\ UNCHANGED count_vars
    /\ UNCHANGED <<obs, cur_vars>>
    /\ UNCHANGED <<tasks, waker_cache, task_queue, handles, pc, driver_locals,
                   panicked, ext_raced, root_signal, root_polls, task_polls,
                   pass_end, last_pop, ever_polled, completed>>

\* Task::allocate: id = TaskId::new()
ExtAllocate(c) ==
    /\ ~panicked
    /\ ext_pc[c] = "idle"
    /\ next_id < MaxId
    /\ ext_id' = [ext_id EXCEPT ![c] = next_id]
    /\ next_id' = FetchAdd(next_id)
    /\ issued' = Append(issued, next_id)
    /\ ext_pc' = [ext_pc EXCEPT ![c] = "allocated"]
    /\ UNCHANGED count_vars
    /\ UNCHANGED <<obs, cur_vars>>
    /\ UNCHANGED <<tasks, waker_cache, task_queue, handles, pc, driver_locals,
                   panicked, ext_raced, root_signal, root_polls, task_polls,
                   pass_end, last_pop, ever_polled, completed>>

\* self.task_queue.push(task.id)
ExtPush(c) ==
    /\ ~panicked
    /\ ext_pc[c] = "allocated"
    /\ Len(task_queue) < MaxQueue
    /\ task_queue' = Push(task_queue, ext_id[c])
    /\ ext_pc' = [ext_pc EXCEPT ![c] = "pushed"]
    /\ RunPush(ext_id[c])
    /\ UNCHANGED count_vars
    /\ UNCHANGED <<mode, pass_vars, poll_trace, cur_vars>>
    /\ UNCHANGED <<next_id, tasks, waker_cache, handles, pc, driver_locals,
                   panicked, ext_id, ext_raced, history>>

\* tasks.insert(task.id, task) begins; poll_task holds &mut tasks and a
\* reference into it for the whole of task.poll
ExtInsertBegin(c) ==
    /\ ~panicked
    /\ ext_pc[c] = "pushed"
    /\ ext_pc' = [ext_pc EXCEPT ![c] = "inserting"]
    /\ ext_raced' = IF Inserting # {} THEN ext_raced \cup Inserting \cup {c}
                    ELSE IF pc = "task_poll" THEN ext_raced \cup {c}
                    ELSE ext_raced
    /\ UNCHANGED count_vars
    /\ UNCHANGED <<obs, cur_vars>>
    /\ UNCHANGED <<next_id, tasks, waker_cache, task_queue, handles, pc,
                   driver_locals, panicked, ext_id, history>>

\* tasks.insert returns: panic if the id was there; an insert that raced
\* with another access to the map may take effect or be lost
ExtInsertEnd(c) ==
    /\ ~panicked
    /\ ext_pc[c] = "inserting"
    /\ IF ext_id[c] \in DOMAIN tasks
       THEN /\ panicked' = TRUE
            /\ UNCHANGED tasks
       ELSE /\ \/ tasks' = tasks @@ (ext_id[c] :> "Task")
               \/ /\ c \in ext_raced
                  /\ UNCHANGED tasks
            /\ UNCHANGED panicked
    /\ ext_pc' = [ext_pc EXCEPT ![c] = "idle"]
    /\ ext_id' = [ext_id EXCEPT ![c] = NoId]
    /\ ext_raced' = ext_raced \ {c}
    /\ UNCHANGED count_vars
    /\ UNCHANGED <<obs, cur_vars>>
    /\ UNCHANGED <<next_id, waker_cache, task_queue, handles, pc,
                   driver_locals, history>>

ExtSpawnAllocate == \E c \in Ext : ExtAllocate(c)
ExtSpawnPush == \E c \in Ext : ExtPush(c)
ExtSpawnInsertBegin == \E c \in Ext : ExtInsertBegin(c)
ExtSpawnInsertEnd == \E c \in Ext : ExtInsertEnd(c)

\* ---- current() ------------------------------------------------------------
\* if !INIT.load(Relaxed): the caller either takes the reference or goes on
\* to set the executor up
CurrentLoad(c) ==
    /\ cur_pc[c] = "idle"
    /\ cur_pc' = [cur_pc EXCEPT ![c] = IF INIT THEN "have" ELSE "init"]
    /\ UNCHANGED count_vars
    /\ UNCHANGED <<next_id, tasks, waker_cache, task_queue, handles, pc,
                   driver_locals, panicked, ext_vars, history, obs, INIT,
                   init_writes>>

\* executorp.write(Executor::new()): whatever the static held is overwritten
CurrentWrite(c) ==
    /\ cur_pc[c] = "init"
    /\ tasks' = << >>
    /\ waker_cache' = << >>
    /\ task_queue' = << >>
    /\ init_writes' = Sat(init_writes)
    /\ cur_pc' = [cur_pc EXCEPT ![c] = "written"]
    /\ UNCHANGED count_vars
    /\ UNCHANGED <<next_id, handles, pc, driver_locals, panicked, ext_vars,
                   history, obs, INIT>>

\* INIT.store(true, Relaxed), and current() returns &*EXECUTOR.as_ptr()
CurrentStore(c) ==
    /\ cur_pc[c] = "written"
    /\ INIT' = TRUE
    /\ cur_pc' = [cur_pc EXCEPT ![c] = "have"]
    /\ UNCHANGED count_vars
    /\ UNCHANGED <<next_id, tasks, waker_cache, task_queue, handles, pc,
                   driver_locals, panicked, ext_vars, history, obs,
                   init_writes>>

\* the caller spawns a task through the reference current() returned
CurrentSpawn(c) ==
    /\ cur_pc[c] = "have"
    /\ ~panicked
    /\ next_id < MaxId
    /\ Len(task_queue) < MaxQueue
    /\ next_id' = SpawnPost.next_id
    /\ task_queue' = SpawnPost.task_queue
    /\ tasks' = SpawnPost.tasks
    /\ panicked' = SpawnPost.panicked
    /\ issued' = Append(issued, next_id)
    /\ cur_pc' = [cur_pc EXCEPT ![c] = "idle"]
    /\ RunPush(next_id)
    /\ UNCHANGED count_vars
    /\ UNCHANGED <<waker_cache, handles, pc, driver_locals, ext_vars,
                   root_signal, root_polls, task_polls, pass_end, last_pop,
                   ever_polled, completed, mode, pass_vars, poll_trace, INIT,
                   init_writes>>

\* the caller lets the reference go
CurrentReturn(c) ==
    /\ cur_pc[c] = "have"
    /\ cur_pc' = [cur_pc EXCEPT ![c] = "idle"]
    /\ UNCHANGED count_vars
    /\ UNCHANGED <<next_id, tasks, waker_cache, task_queue, handles, pc,
                   driver_locals, panicked, ext_vars, history, obs, INIT,
                   init_writes>>

CallCurrentLoad == \E c \in Callers : CurrentLoad(c)
CallCurrentWrite == \E c \in Callers : CurrentWrite(c)
CallCurrentStore == \E c \in Callers : CurrentStore(c)
CallCurrentSpawn == \E c \in Callers : CurrentSpawn(c)
CallCurrentReturn == \E c \in Callers : CurrentReturn(c)

\* ---- a scripted run -------------------------------------------------------
\* Tasks are spawned and block_on is called.  Each task, polled for the
\* first time, invokes its own handle once and returns Pending; polled for
\* the second time it returns Ready.  The root returns Ready only when every
\* task has completed.
Count(q, t) == Cardinality({i \in 1 .. Len(q) : q[i] = t})

\* the tasks are spawned before block_on or by the root in its first poll
ScriptSpawning == pc = "init" \/ (pc = "node_poll" /\ root_polls = 1)
ScriptSpawn == ScriptSpawning /\ Spawn
ScriptSpawnWithName == ScriptSpawning /\ SpawnWithName
ScriptBlockOn == pc = "init" /\ BlockOn
ScriptRootReady == DOMAIN tasks = {} /\ NodePollReady
ScriptRootPending == NodePollPending
ScriptWake ==
    /\ pc = "task_poll"
    /\ Count(poll_trace, task_id) = 1
    /\ Count(task_queue, task_id) = 0
    /\ WakeOf(task_id)
ScriptWakeByRef ==
    /\ pc = "task_poll"
    /\ Count(poll_trace, task_id) = 1
    /\ Count(task_queue, task_id) = 0
    /\ WakeByRefOf(task_id)
ScriptTaskPending ==
    /\ pc = "task_poll"
    /\ Count(poll_trace, task_id) = 1
    /\ Count(task_queue, task_id) = 1
    /\ TaskPollPending
ScriptTaskReady ==
    /\ pc = "task_poll"
    /\ Count(poll_trace, task_id) = 2
    /\ TaskPollReady

\* ---- specifications -------------------------------------------------------
Next ==
    \/ Spawn
    \/ SpawnWithName
    \/ Wake
    \/ WakeByRef
    \/ BlockOn
    \/ NodePollReady
    \/ NodePollPending
    \/ LoopEmpty
    \/ LoopYield
    \/ LoopPollStale
    \/ LoopPollTask
    \/ TaskPollReady
    \/ TaskPollPending

Spec == Init /\ [][Next]_vars

NextConc ==
    \/ Spawn
    \/ SpawnWithName
    \/ Wake
    \/ WakeByRef
    \/ BlockOn
    \/ NodePollReady
    \/ NodePollPending
    \/ LoopEmpty
    \/ LoopYield
    \/ LoopPollStale
    \/ LoopPollTask
    \/ TaskPollReady
    \/ TaskPollPending
    \/ ExtSpawnAllocate
    \/ ExtSpawnPush
    \/ ExtSpawnInsertBegin
    \/ ExtSpawnInsertEnd

\* spawn is also called from contexts other than the driver
SpecConc == Init /\ [][NextConc]_vars

\* the driver context keeps running and every poll returns
FairSpec == Spec /\ WF_vars(Driver)

\* the same runs, with the pushes since the latest pop recorded
PushInit == Fresh("pushes", TRUE)
PushSpec == PushInit /\ [][Next]_vars

\* the same runs, with the polls of each pass of the task loop recorded
PassInit == Fresh("passes", TRUE)
PassSpec == PassInit /\ [][Next]_vars

\* the same runs and the invocations of the NodeWaker, with the invocations,
\* pops and polls counted per task id
CountInit == Fresh("counts", TRUE)
CountNext ==
    \/ Spawn
    \/ SpawnWithName
    \/ Wake
    \/ WakeByRef
    \/ NodeWake
    \/ BlockOn
    \/ NodePollReady
    \/ NodePollPending
    \/ LoopEmpty
    \/ LoopYield
    \/ LoopPollStale
    \/ LoopPollTask
    \/ TaskPollReady
    \/ TaskPollPending
CountSpec == CountInit /\ [][CountNext]_vars

\* the scripted run
ScriptInit == Fresh("scripted", TRUE)
ScriptNext ==
    \/ ScriptSpawn
    \/ ScriptSpawnWithName
    \/ ScriptBlockOn
    \/ ScriptRootReady
    \/ ScriptRootPending
    \/ ScriptWake
    \/ ScriptWakeByRef
    \/ ScriptTaskPending
    \/ ScriptTaskReady
    \/ LoopEmpty
    \/ LoopYield
    \/ LoopPollTask
ScriptSpec == ScriptInit /\ [][ScriptNext]_vars

\* the first calls of current(), from the driver and from other contexts
CurInit == Fresh("plain", FALSE)
CurNext ==
    \/ CallCurrentLoad
    \/ CallCurrentWrite
    \/ CallCurrentStore
    \/ CallCurrentSpawn
    \/ CallCurrentReturn
CurSpec == CurInit /\ [][CurNext]_vars

\* ---- the claims -----------------------------------------------------------

\* C1: block_on has returned only if the latest node.poll returned Ready, and
\* the value block_on returned is the value that Ready carried; it never
\* returns while the root has only returned Pending.
C1_ReturnsRootResult ==
    pc = "done" => (root_signal \in Values /\ result = root_signal)

\* block_on returned "b" after an earlier Pending, with an empty queue
C1_Witness ==
    /\ pc = "done"
    /\ root_polls = 2
    /\ result = "b"
    /\ task_queue = << >>
    /\ DOMAIN tasks # {}

\* C2: inside the task loop the root has already been polled in this outer
\* iteration (and returned Pending); no task is polled before the first
\* node.poll, and when the first node.poll returns Ready block_on returns
\* with no task polled.
C2_RootFirst ==
    /\ pc \in {"task_loop", "task_poll"} => root_signal = "pending"
    /\ task_polls > 0 => root_polls > 0
    /\ (pc = "done" /\ root_polls = 1) => task_polls = 0

\* the first node.poll returned Ready while two tasks were pending and queued
C2_Witness ==
    /\ pc = "done"
    /\ root_polls = 1
    /\ task_polls = 0
    /\ Cardinality(DOMAIN tasks) = 2
    /\ Len(task_queue) >= 2

\* C3: the step in which node.poll returns Ready and block_on returns pops
\* nothing, polls nothing, removes nothing and wakes nothing: tasks,
\* task_queue and waker_cache are as they were.
C3_ReturnLeavesTasks ==
    [][(pc = "node_poll" /\ pc' = "done") =>
         /\ tasks' = tasks
         /\ task_queue' = task_queue
         /\ waker_cache' = waker_cache
         /\ completed' = completed
         /\ task_polls' = task_polls]_vars

\* block_on returned in a later iteration with a task, a queue entry and a
\* cached waker left behind
C3_Witness ==
    /\ pc = "done"
    /\ root_polls = 2
    /\ DOMAIN tasks # {}
    /\ task_queue # << >>
    /\ DOMAIN waker_cache # {}

\* C4: a step of spawn or spawn_with_name (the only steps of the driver
\* context that draw an id and stay where they are) adds one task under the
\* id drawn, which was not a key before, appends that id to task_queue, and
\* leaves the other tasks, the earlier queue entries and waker_cache alone.
C4_SpawnFrame ==
    [][(next_id' # next_id /\ pc' = pc) =>
         /\ next_id \notin DOMAIN tasks
         /\ DOMAIN tasks' = DOMAIN tasks \cup {next_id}
         /\ \A i \in DOMAIN tasks : tasks'[i] = tasks[i]
         /\ task_queue' = Append(task_queue, next_id)
         /\ waker_cache' = waker_cache]_vars

\* the task spawned last is in the table and at the tail of the queue, behind
\* an earlier entry, and a waker is cached
C4_Witness ==
    /\ Len(issued) >= 2
    /\ issued[Len(issued)] \in DOMAIN tasks
    /\ Len(task_queue) >= 2
    /\ task_queue[Len(task_queue)] = issued[Len(issued)]
    /\ DOMAIN waker_cache # {}

\* C5: while block_on runs, every task in the table is eventually polled,
\* unless block_on returns.
C5_SpawnedEventuallyPolled ==
    \A i \in TaskIds :
        (i \in DOMAIN tasks /\ pc \notin {"init", "done"})
            ~> (i \in ever_polled \/ pc = "done")

\* a task spawned after block_on began is being polled for the first time
C5_Witness ==
    /\ pc = "task_poll"
    /\ task_id > node_id
    /\ task_id \in DOMAIN tasks
    /\ root_polls = 2

\* C6: the ids given to spawned tasks increase strictly in call order, and
\* every id handed out (to a task or to a root) is below NEXT_ID, so that it
\* is not handed out again.
C6_IdsIncrease ==
    /\ \A i, j \in 1 .. Len(issued) : i < j => issued[i] < issued[j]
    /\ \A i \in 1 .. Len(issued) : issued[i] < next_id
    /\ node_id < next_id
    /\ ~panicked

\* a task was spawned, block_on drew an id, the task completed and another
\* task was spawned
C6_Witness ==
    /\ Len(issued) = 2
    /\ issued[1] \in completed
    /\ issued[2] = issued[1] + 2
    /\ issued[2] \in DOMAIN tasks

\* C7: with spawn called from other contexts too, the id a caller holds
\* between Task::allocate and tasks.insert is no key of the table and is
\* held by no other caller, and the panic of spawn is not reached.
C7_NoDuplicateIds ==
    /\ ~panicked
    /\ \A c \in Ext :
         ext_pc[c] # "idle" =>
           /\ ext_id[c] \notin DOMAIN tasks
           /\ ext_id[c] # node_id
           /\ \A d \in Ext \ {c} : ext_pc[d] # "idle" => ext_id[d] # ext_id[c]

\* a spawn of the driver context ran between another context's
\* Task::allocate and its tasks.insert
C7_Witness ==
    \E c \in Ext :
        /\ ext_pc[c] = "inserting"
        /\ \E i \in DOMAIN tasks : i > ext_id[c]

\* C8: from every state, spawn and spawn_with_name leave the same keys in
\* the table, the same task_queue, the same NEXT_ID and the same panic flag,
\* and the same entries for the tasks that were there; the new entries
\* differ in the name only.
C8_SameEffect ==
    \A name \in NameArgs :
        /\ DOMAIN SpawnWithNamePost(name).tasks = DOMAIN SpawnPost.tasks
        /\ SpawnWithNamePost(name).task_queue = SpawnPost.task_queue
        /\ SpawnWithNamePost(name).next_id = SpawnPost.next_id
        /\ SpawnWithNamePost(name).panicked = SpawnPost.panicked
        /\ \A i \in DOMAIN tasks :
             SpawnWithNamePost(name).tasks[i] = SpawnPost.tasks[i]
        /\ next_id \notin DOMAIN tasks =>
             /\ SpawnWithNamePost(name).tasks[next_id] = name
             /\ SpawnPost.tasks[next_id] = "Task"

\* a task of spawn and a task of spawn_with_name are both in the table and
\* queued
C8_Witness ==
    \E i, j \in DOMAIN tasks :
        /\ tasks[i] = "Task"
        /\ tasks[j] = "worker"
        /\ \E k, l \in 1 .. Len(task_queue) :
             task_queue[k] = i /\ task_queue[l] = j

\* C9: every pass of the task loop ends: from the task loop the driver gets
\* back to node.poll, whatever the tasks do.
C9_RootResumedAgain ==
    (pc \in {"task_loop", "task_poll"}) ~> (pc = "node_poll")

\* a task that woke itself was popped again right after its poll, pushed
\* back to the tail, and the root is being polled
C9_Witness ==
    /\ pc = "node_poll"
    /\ pass_end = "yield"
    /\ task_queue # << >>
    /\ task_queue[Len(task_queue)] \in DOMAIN waker_cache

\* C10: a task that has completed is never in the table again, has no cached
\* waker again and is never polled again, whatever is pushed for its id, and
\* no panic is reached.
C10_StaleWakeIgnored ==
    /\ completed \cap DOMAIN tasks = {}
    /\ completed \cap DOMAIN waker_cache = {}
    /\ pc = "task_poll" => task_id \notin completed
    /\ ~panicked

\* the id of a completed task was popped, poll_task returned for it and the
\* task loop goes on
C10_Witness ==
    /\ pc = "task_loop"
    /\ last_pop = "stale"
    /\ last_task \in completed

\* C11: in the scripted run (tasks T1..Tn spawned in this order, each waking
\* itself and returning Pending at its first poll and returning Ready at its
\* second, the root returning Ready only when all have completed) the polls
\* of tasks are T1..Tn followed by T1..Tn: the polls so far are always a
\* prefix of that, block_on returns only after all of them, with every task
\* completed, and no pop ever finds an id without a task.
C11_ScriptedOrder ==
    LET want == issued \o issued
    IN /\ Len(poll_trace) <= Len(want)
       /\ \A i \in 1 .. Len(poll_trace) : poll_trace[i] = want[i]
       /\ root_signal \in Values =>
            /\ poll_trace = want
            /\ completed = {issued[i] : i \in 1 .. Len(issued)}
            /\ DOMAIN tasks = {}
       /\ (pc = "task_loop" /\ task_queue # << >>) =>
            (Head(task_queue) = last_task \/ Head(task_queue) \in DOMAIN tasks)

\* block_on returned after two tasks were each polled twice, in spawn order
C11_Witness ==
    /\ pc = "done"
    /\ Len(issued) = 2
    /\ poll_trace = <<issued[1], issued[2], issued[1], issued[2]>>
    /\ completed = {issued[1], issued[2]}

\* C12: from every state and for every handle, wake and wake_by_ref leave
\* the same executor: the one before with the id the handle is bound to
\* appended to task_queue.  A step that invokes a handle, in either form
\* (a push of an id that has a handle; spawn pushes ids that have none yet),
\* changes task_queue in that way and changes nothing else of the executor
\* or of the driver.
C12_WakeForms ==
    /\ [](\A t \in handles :
            /\ WakePost(Executor, t) = WakeByRefPost(Executor, t)
            /\ WakePost(Executor, t) =
                 [Executor EXCEPT !.task_queue = Append(task_queue, t)])
    /\ [][(Len(run_pushed') = Len(run_pushed) + 1 /\
           run_pushed'[Len(run_pushed')] \in handles) =>
             /\ task_queue' =
                  Append(task_queue, run_pushed'[Len(run_pushed')])
             /\ UNCHANGED <<tasks, waker_cache, next_id, handles, pc,
                            driver_locals, panicked>>]_vars

\* the handle of a task that is still in the table was invoked while the
\* driver was at the head of the task loop: its id is the last of the queue,
\* behind what the latest pop left
C12_Witness ==
    /\ pc = "task_loop"
    /\ run_base >= 1
    /\ Len(run_pushed) = 1
    /\ run_pushed[1] \in handles \cap DOMAIN tasks
    /\ task_queue[Len(task_queue)] = run_pushed[1]

\* C13, as claimed: invoking a handle twice leaves the executor as invoking
\* it once does.
C13_Idempotent ==
    \A t \in handles :
        WakePost(WakePost(Executor, t), t) = WakePost(Executor, t)

\* C13, amended: invoking a handle twice leaves tasks and waker_cache as
\* invoking it once does (both leave them alone), and leaves task_queue with
\* one more entry of the id than invoking it once does; this holds for wake,
\* for wake_by_ref and for one after the other.
C13_TwiceAddsOne ==
    \A t \in handles :
        LET once == WakePost(Executor, t)
            byref == WakeByRefPost(Executor, t)
        IN \A twice \in {WakePost(once, t), WakeByRefPost(once, t),
                          WakePost(byref, t), WakeByRefPost(byref, t)} :
              /\ twice.tasks = once.tasks
              /\ twice.waker_cache = once.waker_cache
              /\ twice.task_queue = Append(once.task_queue, t)
              /\ once.tasks = tasks
              /\ once.waker_cache = waker_cache

\* a handle was invoked twice in succession, and its two entries are the
\* last two of the queue
C13_Witness ==
    /\ Len(run_pushed) >= 2
    /\ run_pushed[Len(run_pushed)] \in handles
    /\ run_pushed[Len(run_pushed)] = run_pushed[Len(run_pushed) - 1]
    /\ task_queue[Len(task_queue)] = task_queue[Len(task_queue) - 1]

\* C14: whatever the interleaving of pushes (by handles invoked from any
\* context, and by spawn) with the pops of the driver, the queue is what the
\* latest pop left followed by one entry for each push since, in call
\* order: no invocation is dropped or merged with another, so k invocations
\* for an id since the latest pop have left k more entries of it.
C14_NoWakeLost ==
    /\ Len(task_queue) = run_base + Len(run_pushed)
    /\ \A i \in 1 .. Len(run_pushed) : task_queue[run_base + i] = run_pushed[i]
    /\ \A t \in TaskIds :
         Count(task_queue, t) >= Count(run_pushed, t)

\* while a task is being polled, the handles of two tasks were invoked
\* behind an entry the latest pop left
C14_Witness ==
    /\ pc = "task_poll"
    /\ run_base >= 1
    /\ \E i, j \in 1 .. Len(run_pushed) :
         /\ run_pushed[i] \in handles
         /\ run_pushed[j] \in handles
         /\ run_pushed[i] # run_pushed[j]

\* C15, as claimed: with spawn called from other contexts while block_on
\* runs, no tasks.insert is under way while poll_task holds the table (from
\* its lookup, through task.poll, to the removal).
C15_NoOverlap ==
    \A c \in Ext : ext_pc[c] = "inserting" => pc # "task_poll"

\* C16, as claimed: whatever the interleaving of the calls of current(),
\* Executor::new is written into the static at most once, and a caller that
\* holds the reference holds the executor of that one write.
C16_InitOnce ==
    /\ init_writes <= 1
    /\ \A c \in Callers : cur_pc[c] = "have" => init_writes = 1

\* C17, as claimed: in a pass of the task loop, task.poll is called at most
\* as many times as task_queue.len() returned when the pass began.
C17_WithinBudget == pass_polls <= pass_budget

\* C18: when the driver, at the head of the task loop, pops the id it
\* processed last in this pass, that step puts the id at the tail of the
\* queue behind the other entries, polls nothing (no task.poll is called, no
\* task or waker is added or removed) and ends the pass without going
\* through the budget: the driver is at node.poll next.
C18_LivelockGuard ==
    [][(/\ pc = "task_loop"
        /\ task_queue # << >>
        /\ Head(task_queue) = last_task
        /\ (pc' # pc \/ last_task' # last_task \/ task_budget' # task_budget))
       => /\ task_queue' = Append(Tail(task_queue), Head(task_queue))
          /\ pc' = "node_poll"
          /\ pass_end' = "yield"
          /\ task_id' = task_id
          /\ UNCHANGED <<tasks, waker_cache, handles, task_polls,
                         ever_polled, completed>>]_vars

\* the pass ended by pushing back the id of a pending task behind another
\* entry, and the root is being polled
C18_Witness ==
    /\ pc = "node_poll"
    /\ pass_end = "yield"
    /\ Len(task_queue) >= 2
    /\ task_queue[Len(task_queue)] \in DOMAIN tasks
    /\ task_queue[Len(task_queue)] # task_queue[1]

\* C19: when the queue holds k >= 2 entries, all of them the id of one task
\* of the table, at the moment the root returns Pending, the pass that
\* follows polls that task at most once, at least k - 1 entries of the id
\* stay queued throughout, and the pass ends by the push-back of the id, so
\* that the root is polled next.
C19_OnePollPerPass ==
    pass_mono # NoMono =>
        /\ pass_polls <= 1
        /\ Count(task_queue, pass_mono[1]) >= pass_mono[2] - 1
        /\ pc = "task_poll" => task_id = pass_mono[1]
        /\ pc = "node_poll" => pass_end = "yield"

\* the queue held three entries of one task; the task was polled once, two
\* entries are left and the root is being polled
C19_Witness ==
    /\ pass_mono # NoMono
    /\ pass_mono[2] = 3
    /\ pc = "node_poll"
    /\ pass_polls = 1
    /\ task_queue = <<pass_mono[1], pass_mono[1]>>

\* C20: a step of the driver that pops an id with no task in the table
\* (poll_task warns and returns) removes that entry from the queue and
\* otherwise leaves tasks, waker_cache and the queue as they were, calls no
\* task.poll, reaches no panic and does not end block_on: the loop goes on
\* with the next entry, or the pass ends because the budget is used up.
C20_StaleNoEffect ==
    [][(/\ pc = "task_loop"
        /\ task_queue # << >>
        /\ Head(task_queue) # last_task
        /\ Head(task_queue) \notin DOMAIN tasks
        /\ (pc' # pc \/ last_task' # last_task))
       => /\ task_queue' = Tail(task_queue)
          /\ UNCHANGED <<tasks, waker_cache, handles, task_polls,
                         ever_polled, completed, panicked, result>>
          /\ IF task_budget > 0
             THEN pc' = "task_loop" /\ task_budget' = task_budget - 1
             ELSE pc' = "node_poll"]_vars

\* poll_task returned for an id that has no task, and the entry that is next
\* in the queue is the id of a task
C20_Witness ==
    /\ pc = "task_loop"
    /\ last_pop = "stale"
    /\ task_queue # << >>
    /\ Head(task_queue) \in DOMAIN tasks
    /\ Head(task_queue) # last_task

\* C21: the step in which task.poll returns Ready is taken by poll_task for
\* the task it polled, and that same step removes this task from tasks and
\* its waker from waker_cache and nothing else from either; no later
\* task.poll is called for a task that has completed, whatever the queue
\* holds for its id.
C21_CompletionRemoves ==
    [][/\ completed' # completed =>
            /\ pc = "task_poll"
            /\ task_id \in DOMAIN tasks
            /\ completed' = completed \cup {task_id}
            /\ tasks' = Remove(tasks, task_id)
            /\ waker_cache' = Remove(waker_cache, task_id)
       /\ (pc = "task_loop" /\ pc' = "task_poll") =>
            /\ task_id' \notin completed
            /\ task_id' \in DOMAIN tasks]_vars

\* a task has completed while two entries for its id are in the queue and
\* another task is in the table
C21_Witness ==
    \E t \in completed :
        /\ Count(task_queue, t) >= 2
        /\ DOMAIN tasks # {}
        /\ pc = "task_loop"

\* C22, as claimed, in the weaker form it implies: every task.poll of a task
\* after its first comes after an invocation of its handle made since its
\* previous task.poll began (the claim asks for one made since the previous
\* task.poll returned).
C22_FiredAnew ==
    [][(pc = "task_loop" /\ pc' = "task_poll" /\ task_id' \in ever_polled)
         => task_id' \in fired]_vars

\* C22, amended: the step in which task.poll returns Pending leaves the
\* task's entry in tasks and its waker in waker_cache as they were; a task
\* is polled again only for an entry of its id, so that the task.poll calls
\* of a task never exceed one (for the entry spawn pushed) plus the
\* invocations of its handle so far, and the pops that went on to poll_task
\* never exceed that either.
C22_PolledPerInvocation ==
    /\ [](\A t \in TaskIds :
            /\ polled[t] <= popped[t]
            /\ popped[t] <= 1 + invoked[t]
            /\ polled[t] >= 2 => invoked[t] >= polled[t] - 1)
    /\ [][(pc = "task_poll" /\ pc' # pc /\ completed' = completed) =>
             /\ task_id \in DOMAIN tasks'
             /\ tasks'[task_id] = tasks[task_id]
             /\ task_id \in DOMAIN waker_cache'
             /\ waker_cache'[task_id] = waker_cache[task_id]
             /\ DOMAIN tasks' = DOMAIN tasks
             /\ DOMAIN waker_cache' = DOMAIN waker_cache]_vars

\* a task is polled for the third time: its handle was invoked twice
\* before its second poll and not since
C22_Witness ==
    /\ pc = "task_poll"
    /\ polled[task_id] = 3
    /\ invoked[task_id] = 2
    /\ task_id \notin fired

\* C23: waker_cache has an entry for exactly the ids whose task.poll was
\* called at least once and has not returned Ready; every such id is a key
\* of tasks, the entry is the handle bound to that id, and a task that was
\* never polled has none.
C23_CacheIffPolled ==
    /\ DOMAIN waker_cache = ever_polled \ completed
    /\ DOMAIN waker_cache \subseteq DOMAIN tasks
    /\ \A t \in DOMAIN waker_cache : waker_cache[t] = t
    /\ \A t \in DOMAIN tasks : t \notin ever_polled => t \notin DOMAIN waker_cache

\* one task was polled and is pending, with a cached waker; another was
\* spawned and not polled yet, with none
C23_Witness ==
    /\ pc = "task_loop"
    /\ \E a, b \in DOMAIN tasks :
         /\ a \in DOMAIN waker_cache
         /\ b \notin DOMAIN waker_cache
         /\ b \notin ever_polled
         /\ Head(task_queue) = b

\* C24: within one pass of the inner loop tasks are resumed in the order
\* their ids are popped, and pops return ids in the order they were pushed:
\* a resume attempt (poll or stale lookup) is always for the oldest entry of
\* the queue and leaves the entries behind it in their order, every push
\* goes to the tail, and the only entry that moves is the one the livelock
\* guard defers (head to tail).  So an entry enqueued before another one is
\* attempted first unless the guard deferred it.
C24_ResumeInPopOrder ==
    [][\/ task_queue' = task_queue
       \/ \E t \in TaskIds : task_queue' = Append(task_queue, t)
       \/ /\ pc = "task_loop"
          /\ task_queue # << >>
          /\ Head(task_queue) = last_task
          /\ task_queue' = Append(Tail(task_queue), Head(task_queue))
          /\ pc' = "node_poll"
          /\ ever_polled' = ever_polled
       \/ /\ pc = "task_loop"
          /\ task_queue # << >>
          /\ Head(task_queue) # last_task
          /\ task_queue' = Tail(task_queue)
          /\ Head(task_queue) \in DOMAIN tasks =>
                (pc' = "task_poll" /\ task_id' = Head(task_queue))
          /\ Head(task_queue) \notin DOMAIN tasks =>
                (pc' # "task_poll" /\ tasks' = tasks)]_vars

\* a is being polled while b, spawned and enqueued after a and never polled
\* yet, is the oldest entry left, ahead of a later entry of a
C24_Witness ==
    /\ pc = "task_poll"
    /\ Len(task_queue) >= 2
    /\ task_queue[1] \in DOMAIN tasks
    /\ task_id < task_queue[1]
    /\ task_queue[1] \notin ever_polled
    /\ task_queue[2] = task_id

\* C25: invoking the root's handle (NodeWaker) is a no-op: the step leaves the
\* queue, the task table and the waker cache (and the driver's position) as
\* they are; and the root is polled at the start of every outer iteration
\* whether or not it was invoked: every exit from the inner loop leads to
\* node.poll.
C25_RootWakeNoOp ==
    [][/\ (node_wakes = 0 /\ node_wakes' = 1) =>
            /\ task_queue' = task_queue
            /\ tasks' = tasks
            /\ waker_cache' = waker_cache
            /\ pc' = pc
            /\ driver_locals' = driver_locals
            /\ root_polls' = root_polls
       /\ (pc \in {"task_loop", "task_poll"}
              /\ pc' \notin {"task_loop", "task_poll"}) =>
            /\ pc' = "node_poll"
            /\ root_polls' = Sat(root_polls)
            /\ node_wakes' = node_wakes]_vars

\* the root's handle was invoked during this block_on, tasks are queued, and
\* the root is polled again at the start of a later iteration
C25_Witness ==
    /\ node_wakes = 1
    /\ pc = "node_poll"
    /\ root_polls >= 2
    /\ task_queue # << >>
    /\ DOMAIN tasks # {}

\* C26: the id of the root (node.id) is never a key of the task table or of
\* the waker cache and never an entry of the queue; so the first id popped in
\* a pass, which is compared with node.id, is never deferred by the guard.
C26_RootIdNowhere ==
    /\ node_id \notin DOMAIN tasks
    /\ node_id \notin DOMAIN waker_cache
    /\ \A i \in 1 .. Len(task_queue) : task_queue[i] # node_id
    /\ (pc = "task_loop" /\ last_task = node_id /\ task_queue # << >>) =>
           Head(task_queue) # last_task

\* a pass begins with tasks queued, the root having an id above a task's and
\* below another's
C26_Witness ==
    /\ pc = "task_loop"
    /\ last_task = node_id
    /\ Len(task_queue) >= 2
    /\ \E a, b \in DOMAIN tasks : a < node_id /\ node_id < b
    /\ Head(task_queue) \in DOMAIN tasks

\* C27: a task that never completes is never removed from the task table and
\* stays resumable: a task leaves the table only in the step in which it
\* completes, every spawned task that has not completed is in the table,
\* duplicate wakes cause no panic, and a task is never polled more often than
\* its id was popped.
C27_NeverRemoved ==
    /\ [](/\ ~panicked
          /\ \A i \in 1 .. Len(issued) :
                issued[i] \notin completed => issued[i] \in DOMAIN tasks
          /\ \A t \in TaskIds : polled[t] <= popped[t])
    /\ [][\A t \in DOMAIN tasks :
            t \notin DOMAIN tasks' => (t \in completed' /\ t \notin completed)]_vars

\* a task was polled twice without completing, was woken twice, and a
\* duplicate entry of it is still queued
C27_Witness ==
    /\ pc = "task_loop"
    /\ \E t \in DOMAIN tasks :
         /\ polled[t] = 2
         /\ invoked[t] = 2
         /\ Count(task_queue, t) = 1
         /\ t \notin completed

\* C28: a stale resumption (the popped id has no task in the table) happens
\* only for a task that has completed and been removed: whenever the driver
\* pops an id for which poll_task finds no task, that id is of a completed
\* task, for every interleaving of spawn with the driver's steps.
C28_StaleOnlyCompleted ==
    [][(/\ pc = "task_loop"
        /\ task_queue # << >>
        /\ Head(task_queue) # last_task
        /\ Head(task_queue) \notin DOMAIN tasks
        /\ task_queue' = Tail(task_queue)) =>
           Head(task_queue) \in completed]_vars

\* C29: while block_on runs (the root has not completed), a task that puts
\* itself back in the queue at every poll cannot starve the others: whenever
\* the queue holds an entry of a task that is in the table, that task is
\* eventually polled, unless block_on returns or the task completes first.
C29_NoStarvation ==
    \A t \in TaskIds :
        (/\ Count(task_queue, t) > 0
         /\ t \in DOMAIN tasks
         /\ pc \notin {"init", "done"})
            ~> \/ pc = "task_poll" /\ task_id = t
               \/ pc = "done"
               \/ t \notin DOMAIN tasks

\* a task is polled in a later iteration while another task, polled before
\* and still in the table, has entries of its own wakes in the queue
C29_Witness ==
    /\ pc = "task_poll"
    /\ root_polls = 2
    /\ \E a \in DOMAIN tasks :
         /\ a # task_id
         /\ a \in ever_polled
         /\ a \in DOMAIN waker_cache
         /\ Count(task_queue, a) >= 2

\* C30: queue entries are conserved: for every id t given to a spawned task,
\* the entries of t in the queue plus the entries of t popped and processed
\* (polled or discarded as stale) equal 1 (the push of spawn) plus the
\* invocations of t's waker; ids not given to a task have no entries, pops or
\* invocations.  The guard's push-back keeps the count, and the driver pushes
\* nothing else.
C30_EntriesConserved ==
    \A t \in TaskIds :
        IF \E i \in 1 .. Len(issued) : issued[i] = t
        THEN Count(task_queue, t) + popped[t] = 1 + invoked[t]
        ELSE Count(task_queue, t) = 0 /\ popped[t] = 0 /\ invoked[t] = 0

\* after the guard pushed an entry back: a task was polled once, woken
\* twice, one entry of it was deferred and both entries are in the queue
C30_Witness ==
    /\ pc = "node_poll"
    /\ pass_end = "yield"
    /\ \E t \in DOMAIN tasks :
         /\ polled[t] = 1
         /\ invoked[t] = 2
         /\ Count(task_queue, t) = 2

====
